---- MODULE Spec2Model ----
(***************************************************************************)
(* A model of the VertexArray class of luma.gl                             *)
(* (modules/core/src/webgl/vertex-array.js): the attribute table (values,  *)
(* accessors, elements, unused), the cached draw parameters, the scratch   *)
(* buffer, and the calls each method makes on its delegate                 *)
(* (vertexArrayObject) and on the WebGL context (gl).                      *)
(*                                                                         *)
(* JavaScript values are records with a "kind" field.  An object with      *)
(* optional properties (an accessor, the drawParams object, the unused     *)
(* map) is a function whose DOMAIN is the set of properties it defines, so *)
(* reading a property that is not in the DOMAIN is reading `undefined`.    *)
(***************************************************************************)
EXTENDS Integers, Sequences, FiniteSets, TLC

VARIABLES
  isDefaultArray,   \* vertexArrayObject.isDefaultArray (fixed by the constructor)
  configuration,    \* this.configuration
  elements,         \* this.elements
  values,           \* this.values      (a JS array: [length, at])
  accessors,        \* this.accessors   (a JS array: [length, at])
  unused,           \* this.unused
  drawParams,       \* this.drawParams
  buffer,           \* this.buffer (the scratch buffer)
  bindOnUse,        \* this.bindOnUse
  created,          \* how many scratch Buffers `new Buffer(...)` has created
  calls,            \* the calls made on the delegate, gl and func by the last method
  last              \* the last method called, its arguments and its outcome

vars == <<isDefaultArray, configuration, elements, values, accessors, unused,
          drawParams, buffer, bindOnUse, created, calls, last>>

----------------------------------------------------------------------------
(* Bounds and program constants *)

\* The number of attribute locations of the context (vertexArrayObject.MAX_ATTRIBUTES).
MAX_ATTRIBUTES == 2

\* JavaScript's Infinity: larger than every count of the model.
Infinity == 1000000

\* GL.FLOAT
GL_FLOAT == 5126

\* The length bind() passes to bindForUse.
BIND_LENGTH == 4

ERR_ATTRIBUTE_TYPE == "VertexArray: attributes must be Buffers or constants (i.e. typed array)"
ERR_ASSERT == "assertion failed"
ERR_FUNC == "func threw"

----------------------------------------------------------------------------
(* JavaScript values *)

Null == [kind |-> "null"]
Undefined == [kind |-> "undefined"]
NaN == [kind |-> "NaN"]
Num(n) == [kind |-> "number", n |-> n]
Str(s) == [kind |-> "string", s |-> s]
\* the object {}: no property defined
EmptyObject == [p \in {} |-> 0]

IsBuffer(v) == v.kind = "Buffer"
\* ArrayBuffer.isView(v)
IsView(v) == v.kind = "Float32Array"
IsArray(v) == v.kind = "Array"
\* JavaScript truthiness of the values a table entry can hold
Truthy(v) == v.kind \notin {"null", "undefined", "NaN"}
\* Number.isFinite(v)
IsFinite(v) == v.kind = "number"
\* v >= 0 for a JavaScript value v (false for undefined and NaN)
GreaterEqualZero(v) == v.kind = "number" /\ v.n >= 0
Has(obj, p) == p \in DOMAIN obj

\* A JavaScript array created by new Array(n).fill(v)
NewArray(n, v) == [length |-> n, at |-> [i \in 0..(n - 1) |-> v]]
\* array[i]: undefined outside the array
Get(array, i) == IF i \in DOMAIN array.at THEN array.at[i] ELSE Undefined
\* array[i] = v: writing at or past the length grows the array, leaving holes
Put(array, i, v) ==
  IF i < array.length
  THEN [array EXCEPT !.at[i] = v]
  ELSE [length |-> i + 1,
        at |-> [j \in 0..i |-> IF j = i THEN v
                               ELSE IF j < array.length THEN array.at[j]
                               ELSE Undefined]]

----------------------------------------------------------------------------
(* The collaborators of VertexArray: Buffer, Accessor, the program          *)
(* configuration and the delegate's constant normalisation.                 *)

\* An accessor is an object defining some of the properties size, type, divisor.
Acc(size, type) == [p \in {"size", "type"} |-> IF p = "size" THEN size ELSE type]
Divisor(d) == [p \in {"divisor"} |-> d]

\* new Accessor(): no property is set
NewAccessor == EmptyObject

\* What an accessor derives from the value it describes: an array of numbers
\* (typed or not) carries its own size and type, a Buffer carries them in
\* buffer.accessor.
AccessorOfValue(value) ==
  IF IsView(value) THEN Acc(Len(value.data), GL_FLOAT)
  ELSE IF IsArray(value) /\ \A i \in DOMAIN value.items : value.items[i].kind = "number"
       THEN Acc(Len(value.items), GL_FLOAT)
       ELSE EmptyObject

\* accessor.getOptions(value, accessor1, accessor2): the accessor overridden by
\* the properties of accessor1, then by those of accessor2.
getOptions(accessor, value, accessor1, accessor2) ==
  accessor2 @@ accessor1 @@ AccessorOfValue(value) @@ accessor

\* buffer.getVertexCount(accessor): the vertices the buffer's bytes hold
getVertexCount(buf, accessor) == buf.bytes \div (accessor.size * 4)

\* elements.getElementCount(accessor): the 16-bit indices the buffer's bytes hold
getElementCount(buf, accessor) == buf.bytes \div 2

\* vertexArrayObject._normalizeConstantArrayValue: an Array becomes a Float32Array
\* (an array of a Buffer and an accessor is not one of numbers and is kept)
normalizeConstantArrayValue(arrayValue, accessor) ==
  IF IsArray(arrayValue) /\ \A i \in DOMAIN arrayValue.items : arrayValue.items[i].kind = "number"
  THEN [kind |-> "Float32Array",
        data |-> [i \in DOMAIN arrayValue.items |-> arrayValue.items[i].n]]
  ELSE arrayValue

\* Number(locationOrName): a number or a numeric string is its number, a name is NaN
ToNumber(locationOrName) ==
  IF locationOrName.kind = "number" THEN locationOrName ELSE NaN

\* configuration.getAttributeInfo(locationOrName): the attribute declared at that
\* location or under that name, or null
getAttributeInfo(config, locationOrName) ==
  LET n == ToNumber(locationOrName) IN
  IF IsFinite(n)
  THEN IF n.n \in DOMAIN config.byLocation THEN config.byLocation[n.n] ELSE Null
  ELSE IF locationOrName.s \in DOMAIN config.byName
       THEN config.byLocation[config.byName[locationOrName.s]]
       ELSE Null

\* configuration.getLocation(locationOrName): the attribute's location, or -1
getLocation(config, locationOrName) ==
  LET info == getAttributeInfo(config, locationOrName) IN
  IF Truthy(info) THEN Num(info.location) ELSE Num(-1)

----------------------------------------------------------------------------
(* The values the methods are called with *)

ArrayBufferOf(id, accessor, bytes) ==
  [kind |-> "Buffer", id |-> id, target |-> "ARRAY_BUFFER", type |-> "FLOAT",
   accessor |-> accessor, bytes |-> bytes]

\* 4 vertices of one float
bufA == ArrayBufferOf("A", Acc(1, GL_FLOAT), 16)
\* 3 vertices of two floats
bufB == ArrayBufferOf("B", Acc(2, GL_FLOAT), 24)
\* 2 instances of one float
bufI == ArrayBufferOf("I", Divisor(1) @@ Acc(1, GL_FLOAT), 8)
\* a buffer that does not say what it holds
bufN == ArrayBufferOf("N", EmptyObject, 12)
\* 6 indices
bufE ==
  [kind |-> "Buffer", id |-> "E", target |-> "ELEMENT_ARRAY_BUFFER", type |-> "UNSIGNED_SHORT",
   accessor |-> EmptyObject, bytes |-> 12]

ArrayBuffers == {bufA, bufB, bufI, bufN}
Buffers == ArrayBuffers \cup {bufE}

\* a typed array, a plain array of numbers, the empty array
typedC == [kind |-> "Float32Array", data |-> <<1, 2>>]
arrayC == [kind |-> "Array", items |-> <<Num(1), Num(2)>>]
Pair(buf, accessor) == [kind |-> "Array", items |-> <<buf, [kind |-> "object", props |-> accessor]>>]
Single(buf) == [kind |-> "Array", items |-> <<buf>>]

\* the accessors an application passes
OptAccessors == {EmptyObject, Divisor(1)}

\* a program configuration: attribute "positions" at location 0 and attribute
\* "colors" at location 1
AttributeInfo(name, location) ==
  [kind |-> "info", name |-> name, location |-> location, accessor |-> Acc(1, GL_FLOAT)]
Config ==
  [kind |-> "ProgramConfiguration",
   byName |-> [s \in {"positions", "colors"} |-> IF s = "positions" THEN 0 ELSE 1],
   byLocation |-> [l \in {0, 1} |-> AttributeInfo(IF l = 0 THEN "positions" ELSE "colors", l)]]
Configurations == {Null, Config}

----------------------------------------------------------------------------
(* The methods of VertexArray.  A method takes the object (the record of    *)
(* its fields, with the calls made so far, the value returned and the error *)
(* thrown, "" when none) and gives the object after the method.  What       *)
(* follows a call that threw does not run.                                  *)

This ==
  [isDefaultArray |-> isDefaultArray, configuration |-> configuration,
   elements |-> elements, values |-> values, accessors |-> accessors,
   unused |-> unused, drawParams |-> drawParams, buffer |-> buffer,
   bindOnUse |-> bindOnUse, created |-> created,
   calls |-> <<>>, ret |-> Undefined, threw |-> ""]

Threw(va) == va.threw # ""
Throw(va, error) == [va EXCEPT !.threw = error, !.ret = Undefined]
Return(va, value) == [va EXCEPT !.ret = value]
\* a call on the delegate (vao.*), on the context (gl.*) or of func
Call(va, c) == [va EXCEPT !.calls = Append(@, c)]

\* lines 95-98
clearDrawParams(va) == [va EXCEPT !.drawParams = Null]

\* lines 292-294: this.configuration && this.configuration.getAttributeInfo(name)
getAttributeInfoOf(va, attributeName) ==
  IF Truthy(va.configuration)
  THEN getAttributeInfo(va.configuration, attributeName)
  ELSE va.configuration

\* lines 296-305
getAttributeIndex(va, locationOrName) ==
  IF Truthy(va.configuration)
  THEN getLocation(va.configuration, locationOrName)
  ELSE LET location == ToNumber(locationOrName) IN
       IF IsFinite(location) THEN location ELSE Num(-1)

\* lines 286-287: size and type must be finite
assertAccessor(va, location, accessor) ==
  IF Has(accessor, "size") /\ Has(accessor, "type")
  THEN [va |-> va, location |-> location, accessor |-> accessor]
  ELSE [va |-> Throw(va, ERR_ASSERT), location |-> location, accessor |-> accessor]

\* lines 280-284: the accessor of the attribute, from the configuration when it
\* knows the attribute, else a new one, completed by the given accessors
accessorOf(accessInfo, value, accessor1, accessor2) ==
  getOptions(IF Truthy(accessInfo) THEN accessInfo.accessor ELSE NewAccessor,
             value, accessor1, accessor2)

\* lines 274-289: what the method does with the location it resolved
resolveAt(va, location, locationOrName, value, accessor1, accessor2) ==
  IF ~IsFinite(location)
  THEN [va |-> [va EXCEPT !.unused = (locationOrName :> value) @@ @],
        location |-> Undefined, accessor |-> Undefined]
  ELSE assertAccessor(va, location,
                      accessorOf(getAttributeInfoOf(va, locationOrName),
                                 value, accessor1, accessor2))

\* lines 272-290: the object after the call, with the location and the accessor
\* that the caller destructures from the returned value (both undefined when
\* the method returns `this`)
resolveLocationAndAccessor(va, locationOrName, value, accessor1, accessor2) ==
  resolveAt(va, getAttributeIndex(va, locationOrName), locationOrName, value,
            accessor1, accessor2)

\* setElementBuffer without line 144: the cached draw parameters are kept
setElementBufferKeepingDrawParams(va, elementBuffer, accessor) ==
  Return(IF ~va.isDefaultArray
         THEN Call([Call(va, [fn |-> "this.setElementBuffer"])
                      EXCEPT !.elements = elementBuffer],
                   [fn |-> "vao.setElementBuffer", value |-> elementBuffer,
                    accessor |-> accessor])
         ELSE [Call(va, [fn |-> "this.setElementBuffer"])
                 EXCEPT !.elements = elementBuffer],
         Str("this"))

\* lines 142-150
setElementBuffer(va, elementBuffer, accessor) ==
  Return(IF ~va.isDefaultArray
         THEN Call(clearDrawParams([Call(va, [fn |-> "this.setElementBuffer"])
                                      EXCEPT !.elements = elementBuffer]),
                   [fn |-> "vao.setElementBuffer", value |-> elementBuffer,
                    accessor |-> accessor])
         ELSE clearDrawParams([Call(va, [fn |-> "this.setElementBuffer"])
                                 EXCEPT !.elements = elementBuffer]),
         Str("this"))

\* lines 397-400
setElements(va, elementBuffer, accessor) ==
  setElementBuffer(Call(va, [fn |-> "this.setElements"]),
                   elementBuffer, accessor)

\* lines 167-169: the delegate is told when the array is not the default one
forwardBuffer(va, location, buf, accessor) ==
  IF ~va.isDefaultArray
  THEN Call(va, [fn |-> "vao.setBuffer", location |-> location.n,
                 value |-> buf, accessor |-> accessor])
  ELSE va

\* storeBuffer without line 165: the cached draw parameters are kept
storeBufferKeepingDrawParams(va, location, buf, accessor) ==
  IF GreaterEqualZero(location)
  THEN forwardBuffer([va EXCEPT !.values = Put(@, location.n, buf),
                                !.accessors = Put(@, location.n, accessor)],
                     location, buf, accessor)
  ELSE va

\* storeBuffer with the test of line 162 applied to the table only: the draw
\* parameters are cleared and the delegate is called for any location
storeBufferUnchecked(va, location, buf, accessor) ==
  forwardBuffer(clearDrawParams(
                  IF GreaterEqualZero(location)
                  THEN [va EXCEPT !.values = Put(@, location.n, buf),
                                  !.accessors = Put(@, location.n, accessor)]
                  ELSE va),
                location, buf, accessor)

\* lines 162-170: the table is written when the location resolved
storeBuffer(va, location, buf, accessor) ==
  IF GreaterEqualZero(location)
  THEN forwardBuffer(clearDrawParams(
                       [va EXCEPT !.values = Put(@, location.n, buf),
                                  !.accessors = Put(@, location.n, accessor)]),
                     location, buf, accessor)
  ELSE va

\* line 153: setBuffer is entered with its arguments
enterSetBuffer(va, locationOrName, buf, optAccessor) ==
  Call(va, [fn |-> "this.setBuffer", locationOrName |-> locationOrName,
            buffer |-> buf, optAccessor |-> optAccessor])

\* lines 160-172: what setBuffer does with the resolved location and accessor
setBufferAt(r, buf) ==
  IF Threw(r.va) THEN r.va
  ELSE Return(storeBuffer(r.va, r.location, buf, r.accessor), Str("this"))

\* lines 153-173
setBuffer(va, locationOrName, buf, optAccessor) ==
  IF buf.target = "ELEMENT_ARRAY_BUFFER"
  THEN setElements(enterSetBuffer(va, locationOrName, buf, optAccessor), buf, EmptyObject)
  ELSE setBufferAt(
         resolveLocationAndAccessor(enterSetBuffer(va, locationOrName, buf, optAccessor),
                                    locationOrName, buf, buf.accessor, optAccessor),
         buf)

\* forwardDisable without the test of line 192
forwardDisableAlways(va, location) ==
  Call(va, [fn |-> "vao.enable", location |-> location.n, enable |-> FALSE])

\* lines 192-194: the delegate disables the array of the location when the
\* vertex array is not the default one
forwardDisable(va, location) ==
  IF ~va.isDefaultArray
  THEN Call(va, [fn |-> "vao.enable", location |-> location.n, enable |-> FALSE])
  ELSE va

\* lines 180-195
storeConstant(va, location, arrayValue, accessor) ==
  IF GreaterEqualZero(location)
  THEN forwardDisable(clearDrawParams(
                        [va EXCEPT !.values = Put(@, location.n,
                                                  normalizeConstantArrayValue(arrayValue, accessor)),
                                   !.accessors = Put(@, location.n, accessor)]),
                      location)
  ELSE va

\* lines 178-197: what setConstant does with the resolved location and accessor
setConstantAt(r, arrayValue) ==
  IF Threw(r.va) THEN r.va
  ELSE Return(storeConstant(r.va, r.location, arrayValue, r.accessor), Str("this"))

\* line 176: setConstant is entered with its arguments
enterSetConstant(va, locationOrName, arrayValue, optAccessor) ==
  Call(va, [fn |-> "this.setConstant", locationOrName |-> locationOrName,
            arrayValue |-> arrayValue, optAccessor |-> optAccessor])

\* lines 176-198
setConstant(va, locationOrName, arrayValue, optAccessor) ==
  setConstantAt(
    resolveLocationAndAccessor(enterSetConstant(va, locationOrName, arrayValue, optAccessor),
                               locationOrName, arrayValue, EmptyObject, optAccessor),
    arrayValue)

\* lines 310-317: the scratch buffer is created when location 0 holds a typed array
updateAttributeZeroBuffer(va, length) ==
  IF IsView(Get(va.values, 0)) /\ ~Truthy(va.buffer)
  THEN Call([va EXCEPT !.buffer = [kind |-> "Buffer", id |-> "scratch", size |-> 1],
                       !.created = @ + 1],
            [fn |-> "new Buffer", size |-> 1])
  ELSE va

\* lines 322-330, from location on
RECURSIVE setConstantAttributesFrom(_, _)
setConstantAttributesFrom(va, location) ==
  IF location >= MAX_ATTRIBUTES THEN va
  ELSE setConstantAttributesFrom(
         IF IsView(Get(va.values, location))
         THEN Call(Call(va, [fn |-> "vao.enable", location |-> location, enable |-> FALSE]),
                   [fn |-> "VertexArrayObject.setConstant", location |-> location,
                    value |-> Get(va.values, location)])
         ELSE va,
         location + 1)

setConstantAttributes(va) == setConstantAttributesFrom(va, 0)

\* lines 210-216, from location on
RECURSIVE unbindBuffersFrom(_, _)
unbindBuffersFrom(va, location) ==
  IF location >= MAX_ATTRIBUTES THEN va
  ELSE unbindBuffersFrom(
         IF IsBuffer(Get(va.values, location))
         THEN Call(Call(Call(va,
                [fn |-> "gl.disableVertexAttribArray", location |-> location]),
                [fn |-> "gl.bindBuffer", value |-> va.buffer]),
                [fn |-> "gl.vertexAttribPointer", location |-> location])
         ELSE va,
         location + 1)

\* scratchBuffer without the `this.buffer ||` of line 208: a buffer is created
\* at every call
scratchBufferAlways(va) ==
  Call([va EXCEPT !.buffer = [kind |-> "Buffer", id |-> "scratch", size |-> 4],
                  !.created = @ + 1],
       [fn |-> "new Buffer", size |-> 4])

\* line 208: this.buffer = this.buffer || new Buffer(this.gl, {size: 4})
scratchBuffer(va) ==
  IF Truthy(va.buffer) THEN va
  ELSE Call([va EXCEPT !.buffer = [kind |-> "Buffer", id |-> "scratch", size |-> 4],
                       !.created = @ + 1],
            [fn |-> "new Buffer", size |-> 4])

\* lines 202-219
unbindBuffers(va) ==
  Return(unbindBuffersFrom(
           scratchBuffer(Call(Call(va, [fn |-> "this.unbindBuffers"]),
                              [fn |-> "vao.bind(function)"])), 0),
         Str("this"))

\* lines 225-230, from location on
RECURSIVE bindBuffersFrom(_, _)
bindBuffersFrom(va, location) ==
  IF location >= MAX_ATTRIBUTES \/ Threw(va) THEN va
  ELSE bindBuffersFrom(
         IF IsBuffer(Get(va.values, location))
         THEN setBuffer(va, Num(location), Get(va.values, location), EmptyObject)
         ELSE va,
         location + 1)

\* `return this` at the end of a method, reached when nothing threw
returnThis(va) == IF Threw(va) THEN va ELSE Return(va, Str("this"))

\* lines 223-233
bindBuffers(va) ==
  returnThis(bindBuffersFrom(Call(Call(va, [fn |-> "this.bindBuffers"]),
                                  [fn |-> "vao.bind(function)"]), 0))

\* updateDrawParamsForLocation with the `else` of lines 383-391 lost: an instanced
\* buffer also lowers vertexCount
updateDrawParamsForLocationNoElse(va, dp, location) ==
  LET value == Get(va.values, location)
      accessor == Get(va.accessors, location)
  IN  IF ~Truthy(value) THEN dp
      ELSE LET isInstanced == Has(accessor, "divisor") /\ accessor.divisor > 0
               dp1 == [dp EXCEPT !.isInstanced = @ \/ isInstanced]
               count == getVertexCount(value, accessor)
           IN  IF IsBuffer(value)
               THEN [dp1 EXCEPT !.instanceCount = IF isInstanced /\ count < @ THEN count ELSE @,
                                !.vertexCount = IF count < @ THEN count ELSE @]
               ELSE dp1

\* lines 367-393
updateDrawParamsForLocation(va, dp, location) ==
  LET value == Get(va.values, location)
      accessor == Get(va.accessors, location)
  IN  IF ~Truthy(value) THEN dp
      ELSE LET isInstanced == Has(accessor, "divisor") /\ accessor.divisor > 0
               dp1 == [dp EXCEPT !.isInstanced = @ \/ isInstanced]
           IN  IF IsBuffer(value)
               THEN IF isInstanced
                    THEN LET instanceCount == getVertexCount(value, accessor)
                         IN  [dp1 EXCEPT !.instanceCount = IF instanceCount < @ THEN instanceCount ELSE @]
                    ELSE LET vertexCount == getVertexCount(value, accessor)
                         IN  [dp1 EXCEPT !.vertexCount = IF vertexCount < @ THEN vertexCount ELSE @]
               ELSE dp1

\* lines 342-344, from location on
RECURSIVE updateDrawParamsFrom(_, _, _)
updateDrawParamsFrom(va, dp, location) ==
  IF location >= MAX_ATTRIBUTES THEN dp
  ELSE updateDrawParamsFrom(va, updateDrawParamsForLocation(va, dp, location), location + 1)

\* lines 346-352
updateDrawParamsElements(va, dp) ==
  IF Truthy(va.elements)
  THEN [p \in {"elementCount", "indexType"} |->
          IF p = "elementCount" THEN getElementCount(va.elements, va.elements.accessor)
          ELSE va.elements.type]
       @@ [dp EXCEPT !.isIndexed = TRUE]
  ELSE dp

\* lines 357-362
updateDrawParamsDefaults(dp) ==
  [dp EXCEPT !.indexCount = IF @ = Infinity THEN 0 ELSE @,
             !.instanceCount = IF @ = Infinity THEN 0 ELSE @]

\* assertVertexCount without the assertion of line 355
assertVertexCountSkipped(dp) ==
  [kind |-> "drawParams", params |-> updateDrawParamsDefaults(dp)]

\* lines 355-364: the assertion on vertexCount, then the defaults
assertVertexCount(dp) ==
  IF dp.vertexCount < Infinity
  THEN [kind |-> "drawParams", params |-> updateDrawParamsDefaults(dp)]
  ELSE [kind |-> "error", error |-> ERR_ASSERT]

\* lines 333-365: the draw parameters, or the failed assertion (a string)
updateDrawParams(va) ==
  assertVertexCount(
    updateDrawParamsElements(va,
      updateDrawParamsFrom(va, [isIndexed |-> FALSE, isInstanced |-> FALSE,
                                indexCount |-> Infinity, vertexCount |-> Infinity,
                                instanceCount |-> Infinity], 0)))

\* lines 101-103: the draw parameters are cached, the zero buffer updated for
\* vertexCount || this.drawParams.vertexCount, and the parameters returned
getDrawParamsWith(va, computed, vertexCount) ==
  IF computed.kind = "error" THEN Throw(va, computed.error)
  ELSE Return(updateAttributeZeroBuffer(
                [va EXCEPT !.drawParams = computed],
                IF Truthy(vertexCount) THEN vertexCount
                ELSE Num(computed.params.vertexCount)),
              computed)

\* lines 100-104
getDrawParams(va, vertexCount) ==
  getDrawParamsWith(va,
                    IF Truthy(va.drawParams) THEN va.drawParams ELSE updateDrawParams(va),
                    vertexCount)

\* setAttribute with the test of line 120 lost: every array is a constant
setAttributeArraysAreConstants(va, locationOrName, value) ==
  IF IsBuffer(value)
  THEN setBuffer(va, locationOrName, value, EmptyObject)
  ELSE IF IsView(value) \/ IsArray(value)
  THEN setConstant(va, locationOrName, value, EmptyObject)
  ELSE Throw(va, ERR_ATTRIBUTE_TYPE)

\* lines 116-130: one entry of the attributes, dispatched by the shape of its value
setAttribute(va, locationOrName, value) ==
  IF IsBuffer(value)
  THEN setBuffer(va, locationOrName, value, EmptyObject)
  ELSE IF IsArray(value) /\ Len(value.items) > 0 /\ IsBuffer(value.items[1])
  THEN setBuffer(va, locationOrName, value.items[1],
                 IF Len(value.items) >= 2 THEN value.items[2].props ELSE EmptyObject)
  ELSE IF IsView(value) \/ IsArray(value)
  THEN setConstant(va, locationOrName, value, EmptyObject)
  ELSE Throw(va, ERR_ATTRIBUTE_TYPE)

\* lines 115-131: the entries from the i-th on, in the order of the object's keys
RECURSIVE setAttributesFrom(_, _, _)
setAttributesFrom(va, attributes, i) ==
  IF i > Len(attributes) \/ Threw(va) THEN va
  ELSE setAttributesFrom(setAttribute(va, attributes[i].key, attributes[i].value),
                         attributes, i + 1)

\* lines 133-137: reached when no entry threw
unbindArrayBuffer(va) ==
  IF Threw(va) THEN va
  ELSE Return(Call(va, [fn |-> "gl.bindBuffer", value |-> Null]), Str("this"))

\* lines 113-138
setAttributes(va, attributes) ==
  unbindArrayBuffer(setAttributesFrom(Call(Call(va, [fn |-> "this.setAttributes"]),
                                           [fn |-> "vao.bind(function)"]),
                                      attributes, 1))

\* this.hasVertexArrays: a property no line of the class defines
hasVertexArrays(va) == Undefined

\* lines 251-256 and 262-264: what bindForUse does around the bound call when
\* this.hasVertexArrays is falsy
rebindBuffers(va) ==
  IF ~Truthy(hasVertexArrays(va))
  THEN bindBuffers(IF Truthy(va.elements)
                   THEN setElementBuffer(va, va.elements, EmptyObject)
                   ELSE va)
  ELSE va

detachBuffers(va) ==
  IF ~Truthy(hasVertexArrays(va)) THEN unbindBuffers(va) ELSE va

\* callBound with lines 258 and 259 exchanged: func runs before the bind
\* (the call is skipped when what precedes it threw)
callBeforeBind(va, func) ==
  IF Threw(va) THEN va
  ELSE IF func.kind = "throw"
  THEN Throw(Call(Call(va, [fn |-> "func"]), [fn |-> "vao.bind()"]), ERR_FUNC)
  ELSE Return(Call(Call(Call(va, [fn |-> "func"]), [fn |-> "vao.bind()"]),
                   [fn |-> "vao.unbind()"]),
              Str(func.value))

\* lines 258-260: bind the vertex array object, call func, unbind
callBound(va, func) ==
  IF Threw(va) THEN va
  ELSE IF func.kind = "throw"
  THEN Throw(Call(Call(va, [fn |-> "vao.bind()"]), [fn |-> "func"]), ERR_FUNC)
  ELSE Return(Call(Call(Call(va, [fn |-> "vao.bind()"]), [fn |-> "func"]),
                   [fn |-> "vao.unbind()"]),
              Str(func.value))

\* lines 262-266: reached when nothing threw; the value of func is returned
detachAndReturn(va) ==
  IF Threw(va) THEN va ELSE Return(detachBuffers(va), va.ret)

\* bindForUse with line 249 moved after line 260: the constants are written
\* once func has run
bindForUseConstantsLast(va, length, func) ==
  detachAndReturn(
    setConstantAttributes(
      callBound(
        rebindBuffers(
          IF IsFinite(length) THEN updateAttributeZeroBuffer(va, length) ELSE va),
        func)))

\* lines 243-267
bindForUse(va, length, func) ==
  detachAndReturn(
    callBound(
      rebindBuffers(setConstantAttributes(
        IF IsFinite(length) THEN updateAttributeZeroBuffer(va, length) ELSE va)),
      func))

\* lines 239-241
bind(va, func) == bindForUse(va, Num(BIND_LENGTH), func)

\* lines 61-74
reset(va) ==
  Return([va EXCEPT !.elements = Null,
                    !.values = NewArray(MAX_ATTRIBUTES, Null),
                    !.accessors = NewArray(MAX_ATTRIBUTES, Null),
                    !.unused = EmptyObject,
                    !.drawParams = Null],
         Str("this"))

\* lines 77-79
setPropsProgram(va, props) ==
  IF Has(props, "program")
  THEN [va EXCEPT !.configuration =
          IF Truthy(props.program) THEN props.program.configuration ELSE props.program]
  ELSE va

\* lines 80-82
setPropsConfiguration(va, props) ==
  IF Has(props, "configuration")
  THEN [va EXCEPT !.configuration = props.configuration]
  ELSE va

\* lines 83-85
setPropsAttributes(va, props) ==
  IF Has(props, "attributes") THEN setAttributes(va, props.attributes) ELSE va

\* lines 86-88: reached when setAttributes did not throw
setPropsElements(va, props) ==
  IF ~Threw(va) /\ Has(props, "elements")
  THEN setElements(va, props.elements, EmptyObject)
  ELSE va

\* setProps with lines 83-85 moved before line 77: the attributes are applied
\* under the configuration of before the call
setPropsAttributesFirst(va, props) ==
  returnThis(
    setPropsElements(
      setPropsConfiguration(
        setPropsProgram(setPropsAttributes(va, props), props), props), props))

\* lines 76-93
setProps(va, props) ==
  returnThis(
    setPropsElements(
      setPropsAttributes(
        setPropsConfiguration(setPropsProgram(va, props), props), props), props))

\* lines 53-58
initialize(va, props) ==
  setProps([reset(va) EXCEPT !.configuration = Null, !.bindOnUse = FALSE], props)

\* lines 47-51 (named delete in the class)
deleteBuffer(va) ==
  Return(IF Truthy(va.buffer) THEN Call(va, [fn |-> "buffer.delete"]) ELSE va, Undefined)

----------------------------------------------------------------------------
(* The arguments the methods are called with *)

Entry(key, value) == [key |-> key, value |-> value]

\* the in-range locations, and the locations and names that resolve to no
\* location of the table: -1, an unknown name, the first location past the table
Locations == {Num(l) : l \in 0..(MAX_ATTRIBUTES - 1)}
PastTheTable == Num(MAX_ATTRIBUTES)

\* the attributes objects: at location 0 one entry of each shape (a Buffer,
\* [buffer, accessor], [buffer], a typed array, an array of numbers, a number),
\* entries under an unknown name (a Buffer, an element Buffer, the empty
\* array), and objects of two entries
AttributeMaps ==
  {<<Entry(Num(0), v)>> : v \in {bufA, Pair(bufA, Divisor(1)), Single(bufA), typedC,
                                 arrayC, Num(7)}}
  \cup {<<Entry(Str("foo"), v)>> : v \in {bufA, bufE, [kind |-> "Array", items |-> <<>>]}}
  \cup {<<Entry(Str("positions"), bufA), Entry(Num(1), bufI)>>,
        <<Entry(Num(0), typedC), Entry(Num(1), Num(7))>>}

\* the buffers set at a location other than 0: each kind at location 1, one
\* at the locations after it
BuffersAt(k) == IF k = Num(1) THEN {bufA, bufB, bufI} ELSE {bufB}

\* setBuffer(locationOrName, buffer, optAccessor): at location 0 a buffer with
\* and without an accessor of the application, at the other locations each
\* buffer, and buffers at what resolves to no location of the table
SetBufferArgs ==
  {<<Num(0), bufA, EmptyObject>>, <<Num(0), bufA, Divisor(1)>>}
  \cup UNION {{<<k, b, EmptyObject>> : b \in BuffersAt(k)} : k \in Locations \ {Num(0)}}
  \cup {<<k, bufA, EmptyObject>> : k \in {Num(-1), Str("foo"), PastTheTable}}
  \cup {<<Str("foo"), bufN, EmptyObject>>, <<Str("foo"), bufE, EmptyObject>>,
        <<Num(0), bufE, EmptyObject>>}

\* setConstant(locationOrName, arrayValue, optAccessor)
SetConstantArgs ==
  {<<k, typedC, EmptyObject>> : k \in Locations \cup {Num(-1)}}
  \cup {<<Num(0), typedC, Divisor(1)>>}

Program(config) == [kind |-> "Program", configuration |-> config]
Props1(p, v) == [q \in {p} |-> v]

\* the props of setProps, initialize and the constructor
PropsSet ==
  {Props1("configuration", Config),
   Props1("configuration", Null),
   Props1("program", Program(Config)) @@ Props1("configuration", Null),
   Props1("bindOnUse", TRUE),
   Props1("attributes", <<Entry(Num(0), bufA)>>) @@ Props1("elements", bufE),
   Props1("attributes", <<Entry(Str("positions"), bufA)>>) @@ Props1("configuration", Config)}

\* the props of initialize and of the constructor
InitialProps ==
  {EmptyObject,
   Props1("program", Program(Config)),
   Props1("attributes", <<Entry(Str("positions"), bufA)>>) @@ Props1("configuration", Config)}

\* bindForUse(length, func): with a length and without, with a func that
\* returns and one that throws
BindForUseArgs ==
  {<<Num(1), [kind |-> "return", value |-> "r1"]>>, <<Undefined, [kind |-> "return", value |-> "r2"]>>,
   <<Undefined, [kind |-> "throw"]>>}

----------------------------------------------------------------------------
(* The state machine: one action per public method *)

\* The object before the constructor runs initialize (lines 21-35)
Constructed(isDefault) ==
  [isDefaultArray |-> isDefault, configuration |-> Null, elements |-> Null,
   values |-> Null, accessors |-> Null, unused |-> Null, drawParams |-> Null,
   buffer |-> Null, bindOnUse |-> Undefined, created |-> 0,
   calls |-> <<>>, ret |-> Undefined, threw |-> ""]

\* what `last` records of a call: the method, its arguments, the value returned
\* and the error thrown
Outcome(op, args, va) == [op |-> op, args |-> args, ret |-> va.ret, threw |-> va.threw]

Commit(va, op, args) ==
  /\ isDefaultArray' = va.isDefaultArray
  /\ configuration' = va.configuration
  /\ elements' = va.elements
  /\ values' = va.values
  /\ accessors' = va.accessors
  /\ unused' = va.unused
  /\ drawParams' = va.drawParams
  /\ buffer' = va.buffer
  /\ bindOnUse' = va.bindOnUse
  /\ created' = va.created
  /\ calls' = va.calls
  /\ last' = Outcome(op, args, va)

\* lines 16-45: a constructor that throws leaves no object
Init ==
  \E isDefault \in BOOLEAN, opts \in InitialProps :
    LET va == initialize(Constructed(isDefault), opts) IN
    /\ ~Threw(va)
    /\ isDefaultArray = va.isDefaultArray
    /\ configuration = va.configuration
    /\ elements = va.elements
    /\ values = va.values
    /\ accessors = va.accessors
    /\ unused = va.unused
    /\ drawParams = va.drawParams
    /\ buffer = va.buffer
    /\ bindOnUse = va.bindOnUse
    /\ created = va.created
    /\ calls = va.calls
    /\ last = Outcome("constructor", [opts |-> opts], va)

Initialize == \E props \in InitialProps : Commit(initialize(This, props), "initialize", [props |-> props])

Reset == Commit(reset(This), "reset", EmptyObject)

SetProps == \E props \in PropsSet : Commit(setProps(This, props), "setProps", [props |-> props])

GetDrawParams ==
  \E vertexCount \in {Undefined} :
    Commit(getDrawParams(This, vertexCount), "getDrawParams", [vertexCount |-> vertexCount])

SetAttributes ==
  \E attributes \in AttributeMaps :
    Commit(setAttributes(This, attributes), "setAttributes", [attributes |-> attributes])

SetElementBuffer ==
  \E elementBuffer \in {Null, bufE} :
    Commit(setElementBuffer(This, elementBuffer, EmptyObject), "setElementBuffer",
           [elementBuffer |-> elementBuffer])

SetElements ==
  \E elementBuffer \in {bufE} :
    Commit(setElements(This, elementBuffer, EmptyObject), "setElements",
           [elementBuffer |-> elementBuffer])

SetBuffer ==
  \E a \in SetBufferArgs :
    Commit(setBuffer(This, a[1], a[2], a[3]), "setBuffer",
           [locationOrName |-> a[1], buffer |-> a[2], optAccessor |-> a[3]])

SetConstant ==
  \E a \in SetConstantArgs :
    Commit(setConstant(This, a[1], a[2], a[3]), "setConstant",
           [locationOrName |-> a[1], arrayValue |-> a[2], optAccessor |-> a[3]])

UnbindBuffers == Commit(unbindBuffers(This), "unbindBuffers", EmptyObject)

BindBuffers == Commit(bindBuffers(This), "bindBuffers", EmptyObject)

Bind == \E func \in {[kind |-> "return", value |-> "r1"]} : Commit(bind(This, func), "bind", [func |-> func])

BindForUse ==
  \E a \in BindForUseArgs :
    Commit(bindForUse(This, a[1], a[2]), "bindForUse", [length |-> a[1], func |-> a[2]])

Next ==
  \/ Initialize
  \/ Reset
  \/ SetProps
  \/ GetDrawParams
  \/ SetAttributes
  \/ SetElementBuffer
  \/ SetElements
  \/ SetBuffer
  \/ SetConstant
  \/ UnbindBuffers
  \/ BindBuffers
  \/ Bind
  \/ BindForUse

Spec == Init /\ [][Next]_vars

----------------------------------------------------------------------------
(* What the claims speak of *)

InRange == 0..(MAX_ATTRIBUTES - 1)

\* the accessor at location l has a divisor > 0
DivisorPositive(l) ==
  Has(Get(accessors, l), "divisor") /\ Get(accessors, l).divisor > 0

\* the in-range locations that hold a Buffer that is not instanced / is instanced
PlainBufferLocations == {l \in InRange : IsBuffer(Get(values, l)) /\ ~DivisorPositive(l)}
InstancedBufferLocations == {l \in InRange : IsBuffer(Get(values, l)) /\ DivisorPositive(l)}

CountAt(l) == getVertexCount(Get(values, l), Get(accessors, l))

Minimum(S) == CHOOSE x \in S : \A y \in S : x <= y

\* the last call returned (did not throw)
Returned(op) == last.op = op /\ last.threw = ""

\* C1: when getDrawParams succeeds, the returned vertexCount is the minimum of
\* getVertexCount over the in-range locations holding a Buffer whose divisor is
\* not > 0, the returned instanceCount is the minimum over those holding a Buffer
\* whose divisor is > 0 (0 when there is none), and isInstanced is true exactly
\* when some set in-range location (Buffer or constant) has a divisor > 0.
C1_DrawParamsAreMinima ==
  Returned("getDrawParams") =>
    LET p == last.ret.params IN
    /\ PlainBufferLocations # {}
    /\ p.vertexCount = Minimum({CountAt(l) : l \in PlainBufferLocations})
    /\ p.instanceCount = IF InstancedBufferLocations = {} THEN 0
                         ELSE Minimum({CountAt(l) : l \in InstancedBufferLocations})
    /\ p.isInstanced = (\E l \in InRange : Truthy(Get(values, l)) /\ DivisorPositive(l))

\* getDrawParams succeeded on a table with two buffers of different counts that
\* are not instanced, or with one that is and one that is not
C1_Witness ==
  /\ Returned("getDrawParams")
  /\ \/ \E l, m \in PlainBufferLocations : CountAt(l) < CountAt(m)
     \/ InstancedBufferLocations # {}

\* C2 (as claimed): when getDrawParams succeeds, isIndexed is true exactly when
\* an element buffer is set, and then indexCount is the element buffer's element
\* count; with no element buffer, isIndexed is false and indexCount is 0.
C2_IndexCountFromElements ==
  Returned("getDrawParams") =>
    LET p == last.ret.params IN
    /\ p.isIndexed = Truthy(elements)
    /\ Truthy(elements) => p.indexCount = getElementCount(elements, elements.accessor)
    /\ ~Truthy(elements) => p.indexCount = 0

\* the place of each call of func, and the calls of a given name
FuncCalls(c) == {i \in DOMAIN c : c[i].fn = "func"}
CallsOf(c, fn) == {i \in DOMAIN c : c[i].fn = fn}

\* the fields after the step are those of the object va
After(va) ==
  /\ isDefaultArray' = va.isDefaultArray
  /\ configuration' = va.configuration
  /\ elements' = va.elements
  /\ values' = va.values
  /\ accessors' = va.accessors
  /\ unused' = va.unused
  /\ drawParams' = va.drawParams
  /\ buffer' = va.buffer
  /\ bindOnUse' = va.bindOnUse
  /\ created' = va.created
  /\ calls' = va.calls
  /\ last'.ret = va.ret
  /\ last'.threw = va.threw

\* C3: a bindForUse(length, func) that returns has bound the vertex array
\* object, then called func exactly once, then unbound the vertex array object,
\* in that order, and returns the value func returned; bind(func) does what
\* bindForUse(4, func) does.
C3_BindForUseBracketsFunc ==
  [][/\ (last'.op \in {"bind", "bindForUse"} /\ last'.threw = "") =>
          /\ Cardinality(FuncCalls(calls')) = 1
          /\ Cardinality(CallsOf(calls', "vao.bind()")) = 1
          /\ Cardinality(CallsOf(calls', "vao.unbind()")) = 1
          /\ \A i \in FuncCalls(calls') :
               /\ i > 1 /\ calls'[i - 1].fn = "vao.bind()"
               /\ i < Len(calls') /\ calls'[i + 1].fn = "vao.unbind()"
          /\ last'.ret = Str(last'.args.func.value)
     /\ last'.op = "bind" => After(bindForUse(This, Num(4), last'.args.func))
    ]_vars

\* bind(func) returned on a table that holds a buffer
C3_Witness ==
  /\ Returned("bind")
  /\ \E l \in InRange : IsBuffer(Get(values, l))
  /\ FuncCalls(calls) # {}

\* C4: the cached draw parameters are never stale: drawParams is null or what
\* _updateDrawParams computes from the current values, accessors and elements.
C4_DrawParamsNeverStale ==
  Truthy(drawParams) => drawParams = updateDrawParams(This)

\* the cache outlived a call of another method
C4_Witness ==
  /\ Truthy(drawParams)
  /\ last.op \in {"setBuffer", "setConstant", "setAttributes", "unbindBuffers", "setProps"}

\* C5 (as claimed): values and accessors each have exactly MAX_ATTRIBUTES
\* entries in every state after construction: setBuffer and setConstant write
\* only at locations 0..MAX_ATTRIBUTES-1.
C5_TableHasFixedSize ==
  /\ values.length = MAX_ATTRIBUTES
  /\ accessors.length = MAX_ATTRIBUTES
  /\ DOMAIN values.at = InRange
  /\ DOMAIN accessors.at = InRange

\* the attribute resolves to a location >= 0 under the current configuration
Resolves(locationOrName) == GreaterEqualZero(getAttributeIndex(This, locationOrName))

\* the value of an entry is an element buffer, alone or first of an array
HoldsElementBuffer(value) ==
  \/ IsBuffer(value) /\ value.target = "ELEMENT_ARRAY_BUFFER"
  \/ /\ IsArray(value) /\ Len(value.items) > 0 /\ IsBuffer(value.items[1])
     /\ value.items[1].target = "ELEMENT_ARRAY_BUFFER"

\* the calls that set something on the vertex array object
IsDelegateSet(c) == c.fn \in {"vao.setBuffer", "vao.enable", "vao.setElementBuffer"}
DelegateSets(c) == SelectSeq(c, IsDelegateSet)

\* the step left the table, the elements and the cache alone and set nothing
\* on the vertex array object
Ignored ==
  /\ UNCHANGED <<values, accessors, elements, drawParams>>
  /\ DelegateSets(calls') = <<>>

\* the step did to the table, the elements, the cache and the vertex array
\* object what the object va shows
SameEffect(va) ==
  /\ values' = va.values
  /\ accessors' = va.accessors
  /\ elements' = va.elements
  /\ drawParams' = va.drawParams
  /\ DelegateSets(calls') = DelegateSets(va.calls)

EntryResolves(e) == Resolves(e.key)
EntryCounts(e) == Resolves(e.key) \/ HoldsElementBuffer(e.value)

\* C6 (as claimed): an attribute whose name or number does not resolve to a
\* location >= 0 is ignored: a setBuffer or setConstant call for it leaves
\* values, accessors, elements and drawParams unchanged and sets nothing on the
\* vertex array object, and a setAttributes that returns with such an entry
\* does what it does without the entries that do not resolve.
C6_UnresolvedIsIgnored ==
  [][/\ (last'.op \in {"setBuffer", "setConstant"} /\ ~Resolves(last'.args.locationOrName))
          => Ignored
     /\ (/\ last'.op = "setAttributes" /\ last'.threw = ""
         /\ \E i \in DOMAIN last'.args.attributes : ~EntryResolves(last'.args.attributes[i]))
          => SameEffect(setAttributes(This, SelectSeq(last'.args.attributes, EntryResolves)))
    ]_vars

\* C6 (amended): the same, unless the value is a Buffer whose target is
\* ELEMENT_ARRAY_BUFFER, which is set as the element buffer under any name.
C6_UnresolvedIsIgnoredUnlessElements ==
  [][/\ (/\ last'.op \in {"setBuffer", "setConstant"}
         /\ ~Resolves(last'.args.locationOrName)
         /\ ~(last'.op = "setBuffer" /\ HoldsElementBuffer(last'.args.buffer)))
          => Ignored
     /\ (/\ last'.op = "setAttributes" /\ last'.threw = ""
         /\ \E i \in DOMAIN last'.args.attributes : ~EntryCounts(last'.args.attributes[i]))
          => SameEffect(setAttributes(This, SelectSeq(last'.args.attributes, EntryCounts)))
    ]_vars

\* setBuffer returned for a buffer under a name that does not resolve, on an
\* object that has its own vertex array object, a buffer in the table and
\* cached draw parameters
C6_Witness ==
  /\ Returned("setBuffer")
  /\ ~Resolves(last.args.locationOrName)
  /\ ~HoldsElementBuffer(last.args.buffer)
  /\ ~isDefaultArray
  /\ Truthy(drawParams)
  /\ \E l \in InRange : IsBuffer(Get(values, l))

\* the calls of setBuffer and setConstant a method made, in order
IsDispatch(c) == c.fn \in {"this.setBuffer", "this.setConstant"}
Dispatches(c) == SelectSeq(c, IsDispatch)

\* what the shape of an entry's value asks for: the call with its arguments,
\* or none
Dispatch(e) ==
  IF IsBuffer(e.value)
  THEN [fn |-> "this.setBuffer", locationOrName |-> e.key, buffer |-> e.value,
        optAccessor |-> EmptyObject]
  ELSE IF IsArray(e.value) /\ Len(e.value.items) > 0 /\ IsBuffer(e.value.items[1])
  THEN [fn |-> "this.setBuffer", locationOrName |-> e.key, buffer |-> e.value.items[1],
        optAccessor |-> IF Len(e.value.items) >= 2 THEN e.value.items[2].props
                        ELSE EmptyObject]
  ELSE IF IsArray(e.value) \/ IsView(e.value)
  THEN [fn |-> "this.setConstant", locationOrName |-> e.key, arrayValue |-> e.value,
        optAccessor |-> EmptyObject]
  ELSE [fn |-> "none"]

\* C7: setAttributes dispatches each entry by its shape, in order: a Buffer to
\* setBuffer, a non-empty array whose first element is a Buffer to setBuffer
\* with the second element as accessor, any other array or typed array to
\* setConstant; it returns when every entry was dispatched, and throws
\* ERR_ATTRIBUTE_TYPE at the first entry of another shape.
C7_DispatchByShape ==
  last.op = "setAttributes" =>
    LET attributes == last.args.attributes
        made == Dispatches(calls)
    IN  /\ Len(made) <= Len(attributes)
        /\ \A i \in DOMAIN made : made[i] = Dispatch(attributes[i])
        /\ last.threw = "" => Len(made) = Len(attributes)
        /\ last.threw = ERR_ATTRIBUTE_TYPE =>
             /\ Len(made) < Len(attributes)
             /\ Dispatch(attributes[Len(made) + 1]).fn = "none"
        /\ last.threw \notin {"", ERR_ATTRIBUTE_TYPE} => Len(made) >= 1

\* setAttributes threw ERR_ATTRIBUTE_TYPE at its second entry after it set the
\* first as a constant
C7_Witness ==
  /\ last.op = "setAttributes"
  /\ last.threw = ERR_ATTRIBUTE_TYPE
  /\ Len(Dispatches(calls)) = 1
  /\ IsView(Get(values, 0))

\* C8: getDrawParams fails its assertion whenever no location of the table
\* holds a Buffer that is not instanced, and then the drawParams field stays
\* null, so that a later getDrawParams computes them again.
C8_AssertsWithoutPlainBuffer ==
  (last.op = "getDrawParams" /\ PlainBufferLocations = {}) =>
    /\ last.threw = ERR_ASSERT
    /\ drawParams = Null

\* getDrawParams failed on a table that holds only constants and instanced
\* buffers
C8_Witness ==
  /\ last.op = "getDrawParams"
  /\ last.threw = ERR_ASSERT
  /\ \E l \in InRange : Truthy(Get(values, l))

\* the calls on the vertex array object
IsDelegateCall(c) ==
  c.fn \in {"vao.setBuffer", "vao.enable", "vao.setElementBuffer", "vao.bind(function)",
            "vao.bind()", "vao.unbind()", "VertexArrayObject.setConstant"}

\* C9: with a vertex array object of its own (isDefaultArray false) a setBuffer
\* that wrote the table calls vertexArrayObject.setBuffer(location, buffer,
\* accessor), a setConstant that wrote the table calls
\* vertexArrayObject.enable(location, false) and every setElementBuffer calls
\* vertexArrayObject.setElementBuffer; with the default array none of them
\* calls the vertex array object, and the table is written all the same.
C9_ForwardedUnlessDefault ==
  /\ (/\ Returned("setBuffer") /\ Resolves(last.args.locationOrName)
      /\ ~HoldsElementBuffer(last.args.buffer)) =>
       LET location == getAttributeIndex(This, last.args.locationOrName).n IN
       /\ Get(values, location) = last.args.buffer
       /\ SelectSeq(calls, IsDelegateCall) =
            IF isDefaultArray THEN <<>>
            ELSE <<[fn |-> "vao.setBuffer", location |-> location,
                    value |-> last.args.buffer, accessor |-> Get(accessors, location)]>>
  /\ (Returned("setConstant") /\ Resolves(last.args.locationOrName)) =>
       LET location == getAttributeIndex(This, last.args.locationOrName).n IN
       /\ Get(values, location) =
            normalizeConstantArrayValue(last.args.arrayValue, Get(accessors, location))
       /\ SelectSeq(calls, IsDelegateCall) =
            IF isDefaultArray THEN <<>>
            ELSE <<[fn |-> "vao.enable", location |-> location, enable |-> FALSE]>>
  /\ last.op \in {"setElementBuffer", "setElements"} =>
       /\ elements = last.args.elementBuffer
       /\ SelectSeq(calls, IsDelegateCall) =
            IF isDefaultArray THEN <<>>
            ELSE <<[fn |-> "vao.setElementBuffer", value |-> last.args.elementBuffer,
                    accessor |-> EmptyObject]>>
  /\ (isDefaultArray /\ last.op \in {"setBuffer", "setConstant"}) =>
       SelectSeq(calls, IsDelegateCall) = <<>>

\* setBuffer with an accessor of the application wrote the table of an object
\* that has its own vertex array object
C9_Witness ==
  /\ Returned("setBuffer")
  /\ ~isDefaultArray
  /\ Resolves(last.args.locationOrName)
  /\ Has(last.args.optAccessor, "divisor")
  /\ DelegateSets(calls) # <<>>

\* C10 (as claimed): bindForUse re-applies the element buffer and the buffer
\* bindings before func and detaches them after func only when the vertex array
\* has no vertex array object of its own; with one of its own, it performs
\* neither bindBuffers nor unbindBuffers.
C10_RebindsOnlyWithoutOwnArray ==
  last.op \in {"bind", "bindForUse"} =>
    /\ isDefaultArray =>
         /\ \E i \in CallsOf(calls, "this.bindBuffers") : \A j \in FuncCalls(calls) : i < j
         /\ last.threw = "" =>
              \E i \in CallsOf(calls, "this.unbindBuffers") : \A j \in FuncCalls(calls) : j < i
    /\ ~isDefaultArray =>
         /\ CallsOf(calls, "this.bindBuffers") = {}
         /\ CallsOf(calls, "this.unbindBuffers") = {}

\* the places in c of the calls of a given name for location l
CallsAt(c, fn, l) == {i \in DOMAIN c : c[i].fn = fn /\ c[i].location = l}

\* C11: on every bindForUse, for every location of the table that holds a
\* typed-array constant, the attribute is disabled on the vertex array object
\* (enable(location, false)) and then the constant is written to the context
\* (VertexArrayObject.setConstant), both before func is called; the locations
\* that hold a Buffer or null get no such call.
C11_ConstantsWrittenBeforeFunc ==
  last.op \in {"bind", "bindForUse"} =>
    \A l \in InRange :
      IF IsView(Get(values, l))
      THEN \E i \in CallsAt(calls, "vao.enable", l) :
             \E j \in CallsAt(calls, "VertexArrayObject.setConstant", l) :
               /\ i < j
               /\ calls[i].enable = FALSE
               /\ calls[j].value = Get(values, l)
               /\ \A k \in FuncCalls(calls) : j < k
      ELSE /\ CallsAt(calls, "vao.enable", l) = {}
           /\ CallsAt(calls, "VertexArrayObject.setConstant", l) = {}

\* bindForUse called func on a table that holds a constant and a buffer
C11_Witness ==
  /\ Returned("bindForUse")
  /\ FuncCalls(calls) # {}
  /\ \E l \in InRange : IsView(Get(values, l))
  /\ \E l \in InRange : IsBuffer(Get(values, l))

\* C12 (as claimed): rebinding preserves the table: unbindBuffers, bindBuffers
\* and a whole bind or bindForUse leave values and accessors at every location
\* what they were, an accessor given to setBuffer or as [buffer, accessor]
\* included, so that getDrawParams computes the same draw parameters before
\* and after.
C12_RebindingPreservesTable ==
  [][last'.op \in {"unbindBuffers", "bindBuffers", "bind", "bindForUse"}
       => UNCHANGED <<values, accessors>>
    ]_vars

EntryHoldsNoElementBuffer(e) == ~HoldsElementBuffer(e.value)

\* the element buffers of the entries of attributes, in order
RECURSIVE ElementBuffersOf(_)
ElementBuffersOf(attributes) ==
  IF attributes = <<>> THEN <<>>
  ELSE LET v == Head(attributes).value IN
       (IF HoldsElementBuffer(v) THEN <<IF IsBuffer(v) THEN v ELSE v.items[1]>> ELSE <<>>)
       \o ElementBuffersOf(Tail(attributes))

\* C13: a buffer whose target is ELEMENT_ARRAY_BUFFER passed to setBuffer,
\* directly or through setAttributes, under any name or location, is set as the
\* element buffer: elements becomes that buffer, drawParams is cleared, and
\* values and accessors are what they are without that entry.
C13_ElementBufferBecomesElements ==
  [][/\ (last'.op = "setBuffer" /\ HoldsElementBuffer(last'.args.buffer)) =>
          /\ elements' = last'.args.buffer
          /\ drawParams' = Null
          /\ UNCHANGED <<values, accessors>>
          /\ last'.threw = ""
     /\ (/\ last'.op = "setAttributes" /\ last'.threw = ""
         /\ ElementBuffersOf(last'.args.attributes) # <<>>) =>
          LET given == ElementBuffersOf(last'.args.attributes)
              others == setAttributes(This, SelectSeq(last'.args.attributes,
                                                      EntryHoldsNoElementBuffer))
          IN  /\ elements' = given[Len(given)]
              /\ drawParams' = Null
              /\ values' = others.values
              /\ accessors' = others.accessors
    ]_vars

\* setBuffer was given an element buffer at a location of a table that holds
\* a buffer
C13_Witness ==
  /\ Returned("setBuffer")
  /\ last.args.locationOrName = Num(0)
  /\ HoldsElementBuffer(last.args.buffer)
  /\ elements = last.args.buffer
  /\ IsBuffer(Get(values, 0))

\* C14 (as claimed): every attribute that is ignored because its name does not
\* resolve to a location is recorded in the unused map under that name with
\* the value given, with or without a configuration; reset empties the map.
C14_IgnoredIsRecordedUnused ==
  [][/\ (/\ last'.op \in {"setBuffer", "setConstant"}
         /\ last'.threw = ""
         /\ last'.args.locationOrName.kind = "string"
         /\ ~Resolves(last'.args.locationOrName)
         /\ ~(last'.op = "setBuffer" /\ HoldsElementBuffer(last'.args.buffer))) =>
          /\ last'.args.locationOrName \in DOMAIN unused'
          /\ unused'[last'.args.locationOrName] =
               IF last'.op = "setBuffer" THEN last'.args.buffer ELSE last'.args.arrayValue
     /\ last'.op = "reset" => unused' = EmptyObject
    ]_vars

\* the configuration the props install over the configuration old: that of
\* the configuration prop, else that of the program prop, else old
ConfigurationOf(old, props) ==
  IF Has(props, "configuration") THEN props.configuration
  ELSE IF Has(props, "program")
  THEN IF Truthy(props.program) THEN props.program.configuration ELSE props.program
  ELSE old

\* the object base once the configuration of the props is installed and then
\* their attributes are applied
AppliedInOrder(base, props) ==
  IF Has(props, "attributes")
  THEN setAttributes([base EXCEPT !.configuration = ConfigurationOf(@, props)],
                     props.attributes)
  ELSE [base EXCEPT !.configuration = ConfigurationOf(@, props)]

\* the fields and the calls are those of the object e followed by the
\* elements of the props
ThenElements(e, props, cfg, vals, accs, elems, threw, log) ==
  /\ cfg = e.configuration
  /\ vals = e.values
  /\ accs = e.accessors
  /\ threw = e.threw
  /\ elems = IF ~Threw(e) /\ Has(props, "elements") THEN props.elements ELSE e.elements
  /\ \A i \in CallsOf(log, "this.setAttributes") :
       \A j \in CallsOf(log, "this.setElements") : i < j

\* the object initialize and the constructor start from
Blank(va) == [reset(va) EXCEPT !.configuration = Null, !.bindOnUse = FALSE]

\* C15: in one setProps, initialize or constructor call the configuration is
\* installed before the attributes are applied, so that they are resolved
\* against the new configuration; the configuration prop wins over the program
\* prop; and the attributes are applied before the elements.
C15_ConfigurationThenAttributesThenElements ==
  /\ (last.op = "constructor" =>
        ThenElements(AppliedInOrder(Blank(Constructed(isDefaultArray)), last.args.opts),
                     last.args.opts,
                     configuration, values, accessors, elements, last.threw, calls))
  /\ [][/\ last'.op = "setProps" =>
             ThenElements(AppliedInOrder(This, last'.args.props), last'.args.props,
                          configuration', values', accessors', elements', last'.threw,
                          calls')
        /\ last'.op = "initialize" =>
             ThenElements(AppliedInOrder(Blank(This), last'.args.props), last'.args.props,
                          configuration', values', accessors', elements', last'.threw,
                          calls')
       ]_vars

\* initialize was given a configuration and an attribute under a name of that
\* configuration, and the attribute is in the table
C15_Witness ==
  /\ Returned("initialize")
  /\ Has(last.args.props, "configuration")
  /\ Has(last.args.props, "attributes")
  /\ last.args.props.attributes[1].key = Str("positions")
  /\ IsBuffer(Get(values, 0))

\* C16: the scratch buffer is created only when needed and reused: at most one
\* is ever created, a buffer once created stays the buffer of the object, and
\* none is created while location 0 holds no typed-array constant and
\* unbindBuffers has not run.
C16_OneScratchBuffer ==
  /\ [](created <= 1)
  /\ [][/\ Truthy(buffer) => UNCHANGED <<buffer, created>>
        /\ created' > created =>
             \/ IsView(Get(values, 0))
             \/ CallsOf(calls', "this.unbindBuffers") # {}
       ]_vars

\* unbindBuffers reused the buffer that an earlier call created for the
\* constant at location 0
C16_Witness ==
  /\ last.op = "unbindBuffers"
  /\ created = 1
  /\ Truthy(buffer) /\ buffer.size = 1

\* C17 (as claimed): every bind of the vertex array object made by bindForUse
\* is matched by an unbind: once bindForUse has bound the vertex array object,
\* the object is unbound and, where buffers were rebound, unbindBuffers has run
\* by the time the call completes, whether func returns or throws.
C17_BindIsMatchedByUnbind ==
  last.op \in {"bind", "bindForUse"} =>
    \A i \in CallsOf(calls, "vao.bind()") :
      /\ \E j \in CallsOf(calls, "vao.unbind()") : i < j
      /\ CallsOf(calls, "this.bindBuffers") # {} =>
           \E j \in CallsOf(calls, "this.unbindBuffers") : i < j

====
